---- MODULE Spec2Model ----
(***************************************************************************)
(* Layer planning, reference frames, collision validation and layer        *)
(* stacking of the pallettizatore repository (packages verpal / kompongo). *)
(*                                                                         *)
(* Lengths are exact integers counted in units of the checker's default    *)
(* clearance (1e-3 mm).  Pallet and box sides are even numbers of units so *)
(* that every halving the code performs (width / 2, (usable - total) / 2)  *)
(* is exact; the rounding of binary floating point is outside the model.   *)
(***************************************************************************)
EXTENDS Integers, Sequences, FiniteSets, TLC

VARIABLES
    request,      \* LayerRequest of the current call
    pc,           \* position of the caller: which call has completed
    plan,         \* LayerPlan returned by plan_layer, or NoPlan
    issues,       \* list of Collision returned by CollisionChecker.validate
    point,        \* Vector3 the frame operations act on
    probe,        \* the Vector3 the caller started from
    ops,          \* frame operations applied to probe, oldest first
    tokens,       \* origin, x_axis, y_axis handed to ReferenceFrame(...)
    constructed,  \* the ReferenceFrame that construction stored, or None
    view_model,   \* LayerViewModel built by build_layer_view_model, or None
    plc_rows,     \* list of PLCRow built by SiemensPLCExporter._build_rows
    cell,         \* row, col, rows, columns handed to _block_name
    block,        \* the name _block_name returned, or None
    args,         \* keyword arguments of stack_layers
    level,        \* loop variable of stack_layers
    current_z,    \* running Z offset of stack_layers
    layers,       \* stack_layers: layers built so far
    interleaves,  \* stack_layers: InterleafPlacements recorded so far
    sequence,     \* LayerSequencePlan returned by stack_layers, or NoPlan
    heap,         \* the dict and list objects allocated so far, by address
    refs,         \* per returned layer, the addresses its four containers sit at
    approach_overrides,  \* stack_layers argument: None or the address of a dict
    given         \* what the caller handed over: overrides content, directions

vars == <<request, pc, plan, issues, point, probe, ops, tokens, constructed,
          view_model, plc_rows, cell, block,
          args, level, current_z, layers, interleaves, sequence,
          heap, refs, approach_overrides, given>>

heapVars == <<heap, refs, approach_overrides, given>>
planVars == <<plan, issues>>
frameVars == <<point, probe, ops, tokens, constructed>>
exportVars == <<view_model, plc_rows>>
cellVars == <<cell, block>>
stackVars == <<args, level, current_z, layers, interleaves, sequence>>

(***************************************************************************)
(* Bounds of the model                                                     *)
(***************************************************************************)
MaxPalletHalf == 4     \* pallet sides range over 2*2 .. 2*MaxPalletHalf
MaxBoxHalf == 3        \* box sides range over 2*1 .. 2*MaxBoxHalf
MaxOverhang == 1       \* overhang per axis ranges over 0 .. MaxOverhang
MaxCoord == 2          \* probe coordinates range over -MaxCoord .. MaxCoord
MaxLevels == 3         \* levels argument ranges over 0 .. MaxLevels
MaxFrequency == 3      \* interleaf_frequency ranges over 0 .. MaxFrequency

\* an optional value: None, or Some(v)
None == <<>>
Some(v) == <<v>>
Value(opt) == opt[1]

NoPlan == [none |-> TRUE]

(***************************************************************************)
(* models.py: value types                                                  *)
(***************************************************************************)
Vector3(x, y, z) == [x |-> x, y |-> y, z |-> z]

Origins == {"SW", "SE", "NW", "NE", "CENTER"}

\* every frame ReferenceFrame.__post_init__ accepts, in canonical form
ReferenceFrame == [origin : Origins, x_axis : {"E", "W"}, y_axis : {"N", "S"}]

DefaultFrame == [origin |-> "SW", x_axis |-> "E", y_axis |-> "N"]

OrientationMode == {"width", "depth", "both"}

\* a str is the sequence of its characters
LowerCase == <<"a", "b", "c", "d", "e", "f", "g", "h", "i", "j", "k", "l", "m",
               "n", "o", "p", "q", "r", "s", "t", "u", "v", "w", "x", "y", "z">>

UpperCase == <<"A", "B", "C", "D", "E", "F", "G", "H", "I", "J", "K", "L", "M",
               "N", "O", "P", "Q", "R", "S", "T", "U", "V", "W", "X", "Y", "Z">>

\* str.upper(): lower-case letters are replaced, everything else is kept
upper(str) ==
    [i \in DOMAIN str |->
        IF \E k \in DOMAIN LowerCase : LowerCase[k] = str[i]
        THEN UpperCase[CHOOSE k \in DOMAIN LowerCase : LowerCase[k] = str[i]]
        ELSE str[i]]

\* the str of each canonical token
Spelling ==
    [SW |-> <<"S", "W">>, SE |-> <<"S", "E">>, NW |-> <<"N", "W">>,
     NE |-> <<"N", "E">>, CENTER |-> <<"C", "E", "N", "T", "E", "R">>,
     E |-> <<"E">>, W |-> <<"W">>, N |-> <<"N">>, S |-> <<"S">>]

\* the canonical token a str spells, or None
Token(str) ==
    IF \E t \in DOMAIN Spelling : Spelling[t] = str
    THEN Some(CHOOSE t \in DOMAIN Spelling : Spelling[t] = str)
    ELSE None

\* the construction that knows no alias of CENTER
ReferenceFrame__post_init___NoAlias(origin_str, x_axis_str, y_axis_str) ==
    LET origin == Token(upper(origin_str))
        x_axis == Token(upper(x_axis_str))
        y_axis == Token(upper(y_axis_str))
    IN  IF origin = None \/ Value(origin) \notin Origins THEN None
        ELSE IF x_axis = None \/ Value(x_axis) \notin {"E", "W"} THEN None
        ELSE IF y_axis = None \/ Value(y_axis) \notin {"N", "S"} THEN None
        ELSE Some([origin |-> Value(origin), x_axis |-> Value(x_axis),
                   y_axis |-> Value(y_axis)])

\* ReferenceFrame.__post_init__: Some(the frame stored), None on ValueError
ReferenceFrame__post_init__(origin_str, x_axis_str, y_axis_str) ==
    LET origin == IF upper(origin_str) = <<"C">>
                  THEN Some("CENTER")
                  ELSE Token(upper(origin_str))
        x_axis == Token(upper(x_axis_str))
        y_axis == Token(upper(y_axis_str))
    IN  IF origin = None \/ Value(origin) \notin Origins THEN None
        ELSE IF x_axis = None \/ Value(x_axis) \notin {"E", "W"} THEN None
        ELSE IF y_axis = None \/ Value(y_axis) \notin {"N", "S"} THEN None
        ELSE Some([origin |-> Value(origin), x_axis |-> Value(x_axis),
                   y_axis |-> Value(y_axis)])

\* x / s for a sign s of +1 or -1 (the quotient by -1 is the negation)
DivSign(x, s) == IF s = 1 THEN x ELSE 0 - x

\* x / 2 on an even number of units
Half(x) == x \div 2

\* CollisionChecker.__init__: clearance of 1e-3 mm, the unit of length
Clearance == 1

\* the origin table with the points of SE and NW exchanged
_origin_point_SwappedCorners(frame, pallet) ==
    LET width == pallet.width
        depth == pallet.depth
    IN  CASE frame.origin = "SW" -> Vector3(0, 0, 0)
          [] frame.origin = "SE" -> Vector3(0, depth, 0)
          [] frame.origin = "NW" -> Vector3(width, 0, 0)
          [] frame.origin = "NE" -> Vector3(width, depth, 0)
          [] frame.origin = "CENTER" -> Vector3(Half(width), Half(depth), 0)

_origin_point(frame, pallet) ==
    LET width == pallet.width
        depth == pallet.depth
    IN  CASE frame.origin = "SW" -> Vector3(0, 0, 0)
          [] frame.origin = "SE" -> Vector3(width, 0, 0)
          [] frame.origin = "NW" -> Vector3(0, depth, 0)
          [] frame.origin = "NE" -> Vector3(width, depth, 0)
          [] frame.origin = "CENTER" -> Vector3(Half(width), Half(depth), 0)

\* transform that applies the axis signs before it subtracts the origin
transform_OriginAfterSign(frame, position, pallet, overhang_x, overhang_y) ==
    LET base_x == position.x - overhang_x
        base_y == position.y - overhang_y
        origin == _origin_point(frame, pallet)
        x_sign == IF frame.x_axis = "E" THEN 1 ELSE -1
        y_sign == IF frame.y_axis = "N" THEN 1 ELSE -1
        dx == base_x * x_sign - origin.x
        dy == base_y * y_sign - origin.y
    IN  Vector3(dx, dy, position.z)

transform(frame, position, pallet, overhang_x, overhang_y) ==
    LET base_x == position.x - overhang_x
        base_y == position.y - overhang_y
        origin == _origin_point(frame, pallet)
        dx == base_x - origin.x
        dy == base_y - origin.y
        x_sign == IF frame.x_axis = "E" THEN 1 ELSE -1
        y_sign == IF frame.y_axis = "N" THEN 1 ELSE -1
    IN  Vector3(dx * x_sign, dy * y_sign, position.z)

\* restore that multiplies the origin by the sign instead of the position
restore_SignOnOrigin(frame, position, pallet, overhang_x, overhang_y) ==
    LET origin == _origin_point(frame, pallet)
        x_sign == IF frame.x_axis = "E" THEN 1 ELSE -1
        y_sign == IF frame.y_axis = "N" THEN 1 ELSE -1
        base_x == DivSign(origin.x, x_sign) + position.x
        base_y == DivSign(origin.y, y_sign) + position.y
    IN  Vector3(base_x + overhang_x, base_y + overhang_y, position.z)

restore(frame, position, pallet, overhang_x, overhang_y) ==
    LET origin == _origin_point(frame, pallet)
        x_sign == IF frame.x_axis = "E" THEN 1 ELSE -1
        y_sign == IF frame.y_axis = "N" THEN 1 ELSE -1
        base_x == origin.x + DivSign(position.x, x_sign)
        base_y == origin.y + DivSign(position.y, y_sign)
    IN  Vector3(base_x + overhang_x, base_y + overhang_y, position.z)

\* a request that falls back to both orientations whatever the mode
allowed_orientations_AnyMode(req) ==
    <<0, 90>>

\* LayerRequest.allowed_orientations
allowed_orientations(req) ==
    CASE req.orientation_mode = "width" -> <<0>>
      [] req.orientation_mode = "depth" -> <<90>>
      [] OTHER -> <<0, 90>>

\* LayerRequest.overhang_x / overhang_y: the override, else the pallet's value
overhang_x(req) ==
    IF req.max_overhang_x # None THEN Value(req.max_overhang_x) ELSE req.pallet.max_overhang_x

overhang_y(req) ==
    IF req.max_overhang_y # None THEN Value(req.max_overhang_y) ELSE req.pallet.max_overhang_y

(***************************************************************************)
(* planner.py: RecursiveFiveBlockPlanner                                   *)
(***************************************************************************)
\* math.floor(a / b) for b # 0
FloorDiv(a, b) == IF b > 0 THEN a \div b ELSE (0 - a) \div (0 - b)

Max(a, b) == IF a >= b THEN a ELSE b

\* a float quotient num / den, kept exact
Ratio(num, den) == [num |-> num, den |-> den]

\* a.num / a.den > b.num / b.den for positive denominators
RatioGreater(a, b) == a.num * b.den > b.num * a.den

\* the name that tests the top row before the bottom row
_block_name_TopFirst(row, col, rows, columns) ==
    LET is_left == col = 0
        is_right == col = columns - 1
        is_bottom == row = 0
        is_top == row = rows - 1
    IN  IF ~(is_left \/ is_right \/ is_bottom \/ is_top) THEN "center"
        ELSE IF is_left /\ ~(is_top \/ is_bottom) THEN "west"
        ELSE IF is_right /\ ~(is_top \/ is_bottom) THEN "east"
        ELSE IF is_top THEN "north"
        ELSE "south"

_block_name(row, col, rows, columns) ==
    LET is_left == col = 0
        is_right == col = columns - 1
        is_bottom == row = 0
        is_top == row = rows - 1
    IN  IF ~(is_left \/ is_right \/ is_bottom \/ is_top) THEN "center"
        ELSE IF is_left /\ ~(is_top \/ is_bottom) THEN "west"
        ELSE IF is_right /\ ~(is_top \/ is_bottom) THEN "east"
        ELSE IF is_bottom THEN "south"
        ELSE "north"

\* the offsets that leave the whole free space on the west and south sides
_start_offsets_NotHalved(usable_width, usable_depth, box_width, box_depth, columns, rows) ==
    LET total_width == columns * box_width
        total_depth == rows * box_depth
        offset_x == usable_width - total_width
        offset_y == usable_depth - total_depth
    IN  <<offset_x, offset_y>>

_start_offsets(usable_width, usable_depth, box_width, box_depth, columns, rows) ==
    LET total_width == columns * box_width
        total_depth == rows * box_depth
        offset_x == Half(usable_width - total_width)
        offset_y == Half(usable_depth - total_depth)
    IN  <<offset_x, offset_y>>

\* the dict block_counts: one key per block name that occurs
BlockCounts(placements) ==
    [b \in {placements[i].block : i \in DOMAIN placements} |->
        Cardinality({i \in DOMAIN placements : placements[i].block = b})]

EmptyDict == [k \in {} |-> 0]

LayerPlan(placements, orientation, fill_ratio, blocks, start_corner, metadata, box) ==
    [placements |-> placements, orientation |-> orientation,
     fill_ratio |-> fill_ratio, blocks |-> blocks,
     start_corner |-> start_corner, metadata |-> metadata,
     collisions |-> <<>>, box |-> box, approach_overrides |-> EmptyDict]

\* the footprint of the box along X and Y in the given orientation
OrientedWidth(req, orientation) ==
    IF orientation = 0 THEN req.box.width ELSE req.box.depth

OrientedDepth(req, orientation) ==
    IF orientation = 0 THEN req.box.depth ELSE req.box.width

UsableWidth(req) == req.pallet.width + overhang_x(req) * 2

UsableDepth(req) == req.pallet.depth + overhang_y(req) * 2

\* columns counted on the pallet alone, without the overhang
Columns_PalletOnly(req, orientation) ==
    Max(0, FloorDiv(req.pallet.width, OrientedWidth(req, orientation)))

Columns(req, orientation) ==
    Max(0, FloorDiv(UsableWidth(req), OrientedWidth(req, orientation)))

Rows(req, orientation) ==
    Max(0, FloorDiv(UsableDepth(req), OrientedDepth(req, orientation)))

\* the row-major scan begun at the column nearest to the start corner
GridPlacement_FromCorner(req, orientation, seq) ==
    LET width == OrientedWidth(req, orientation)
        depth == OrientedDepth(req, orientation)
        columns == Columns(req, orientation)
        rows == Rows(req, orientation)
        offsets == _start_offsets(UsableWidth(req), UsableDepth(req),
                                  width, depth, columns, rows)
        row == seq \div columns
        col == IF req.start_corner \in {"SE", "NE"}
               THEN columns - 1 - (seq % columns)
               ELSE seq % columns
        x == offsets[1] + col * width + Half(width)
        y == offsets[2] + row * depth + Half(depth)
    IN  [position |-> Vector3(x, y, req.pickup_offset.z),
         rotation |-> orientation,
         block |-> _block_name(row, col, rows, columns),
         sequence_index |-> seq]

\* the placement of the grid cell visited as number seq (row-major scan)
GridPlacement(req, orientation, seq) ==
    LET width == OrientedWidth(req, orientation)
        depth == OrientedDepth(req, orientation)
        columns == Columns(req, orientation)
        rows == Rows(req, orientation)
        offsets == _start_offsets(UsableWidth(req), UsableDepth(req),
                                  width, depth, columns, rows)
        row == seq \div columns
        col == seq % columns
        x == offsets[1] + col * width + Half(width)
        y == offsets[2] + row * depth + Half(depth)
    IN  [position |-> Vector3(x, y, req.pickup_offset.z),
         rotation |-> orientation,
         block |-> _block_name(row, col, rows, columns),
         sequence_index |-> seq]

\* the candidate whose fill ratio is taken over the pallet area alone
_plan_orientation_PalletArea(req, orientation) ==
    LET width == OrientedWidth(req, orientation)
        depth == OrientedDepth(req, orientation)
        usable_width == UsableWidth(req)
        usable_depth == UsableDepth(req)
        columns == Columns(req, orientation)
        rows == Rows(req, orientation)
    IN  IF columns = 0 \/ rows = 0
        THEN LayerPlan(<<>>, orientation, Ratio(0, 1), EmptyDict,
                       req.start_corner, EmptyDict, req.box)
        ELSE LET total_boxes == columns * rows
                 fill_ratio == Ratio(total_boxes * width * depth,
                                     req.pallet.width * req.pallet.depth)
                 placements == [i \in 1..total_boxes |->
                                    GridPlacement(req, orientation, i - 1)]
                 metadata == [k \in {"columns", "rows"} |->
                                 IF k = "columns" THEN columns ELSE rows]
             IN  LayerPlan(placements, orientation, fill_ratio,
                           BlockCounts(placements), req.start_corner,
                           metadata, req.box)

\* kompongo/planner.py: the candidate plan of one orientation, positions in
\* the usable rectangle (origin at its south-west corner)
_plan_orientation(req, orientation) ==
    LET width == OrientedWidth(req, orientation)
        depth == OrientedDepth(req, orientation)
        usable_width == UsableWidth(req)
        usable_depth == UsableDepth(req)
        columns == Columns(req, orientation)
        rows == Rows(req, orientation)
    IN  IF columns = 0 \/ rows = 0
        THEN LayerPlan(<<>>, orientation, Ratio(0, 1), EmptyDict,
                       req.start_corner, EmptyDict, req.box)
        ELSE LET total_boxes == columns * rows
                 fill_ratio == Ratio(total_boxes * width * depth,
                                     usable_width * usable_depth)
                 placements == [i \in 1..total_boxes |->
                                    GridPlacement(req, orientation, i - 1)]
                 metadata == [k \in {"columns", "rows"} |->
                                 IF k = "columns" THEN columns ELSE rows]
             IN  LayerPlan(placements, orientation, fill_ratio,
                           BlockCounts(placements), req.start_corner,
                           metadata, req.box)

\* verpal planner: the candidate is reported in the request's reference frame
_frame_orientation(req, orientation) ==
    LET candidate == _plan_orientation(req, orientation)
    IN  [candidate EXCEPT !.placements =
            [i \in DOMAIN candidate.placements |->
                [candidate.placements[i] EXCEPT !.position =
                    transform(req.reference_frame, @, req.pallet,
                              overhang_x(req), overhang_y(req))]]]

RECURSIVE BestPlan(_, _)

\* the loop with >= in place of >: a tie replaces the plan kept so far
BestPlan_LastOfTies(req, n) ==
    IF n = 0 THEN NoPlan
    ELSE LET best_plan == BestPlan(req, n - 1)
             candidate == _frame_orientation(req, allowed_orientations(req)[n])
         IN  IF candidate.placements = <<>> THEN best_plan
             ELSE IF best_plan = NoPlan
                     \/ ~RatioGreater(best_plan.fill_ratio, candidate.fill_ratio)
                  THEN candidate
                  ELSE best_plan

\* the loop without the "continue" on an empty candidate
BestPlan_KeepEmpty(req, n) ==
    IF n = 0 THEN NoPlan
    ELSE LET best_plan == BestPlan(req, n - 1)
             candidate == _frame_orientation(req, allowed_orientations(req)[n])
         IN  IF best_plan = NoPlan
                \/ RatioGreater(candidate.fill_ratio, best_plan.fill_ratio)
             THEN candidate
             ELSE best_plan

\* the loop that never replaces the first plan it kept
BestPlan_FirstFeasible(req, n) ==
    IF n = 0 THEN NoPlan
    ELSE LET best_plan == BestPlan(req, n - 1)
             candidate == _frame_orientation(req, allowed_orientations(req)[n])
         IN  IF candidate.placements = <<>> THEN best_plan
             ELSE IF best_plan = NoPlan THEN candidate
                  ELSE best_plan

\* the loop of plan_layer over the first n allowed orientations: best_plan
BestPlan(req, n) ==
    IF n = 0 THEN NoPlan
    ELSE LET best_plan == BestPlan(req, n - 1)
             candidate == _frame_orientation(req, allowed_orientations(req)[n])
         IN  IF candidate.placements = <<>> THEN best_plan
             ELSE IF best_plan = NoPlan
                     \/ RatioGreater(candidate.fill_ratio, best_plan.fill_ratio)
                  THEN candidate
                  ELSE best_plan

\* plan_layer: the best plan, or NoPlan when it raises ValueError
plan_layer(req) == BestPlan(req, Len(allowed_orientations(req)))

(***************************************************************************)
(* collisions.py: CollisionChecker                                         *)
(***************************************************************************)
Abs(x) == IF x >= 0 THEN x ELSE 0 - x

\* _box_footprint that always answers for orientation 0
_box_footprint_IgnoresOrientation(pl, req) == <<req.box.width, req.box.depth>>

\* _box_footprint: <<width, depth>> for the orientation of the plan
_box_footprint(pl, req) ==
    IF pl.orientation = 0
    THEN <<req.box.width, req.box.depth>>
    ELSE <<req.box.depth, req.box.width>>

\* the coordinates read without restore (as the kompongo checker does)
_usable_coordinates_Unrestored(placement, req) == placement.position

_usable_coordinates(placement, req) ==
    restore(req.reference_frame, placement.position, req.pallet,
            overhang_x(req), overhang_y(req))

\* the bounds test without the clearance
BoundsIssues_NoClearance(placement, pl, req) ==
    LET limit_x == req.pallet.width + overhang_x(req) * 2
        limit_y == req.pallet.depth + overhang_y(req) * 2
        footprint == _box_footprint(pl, req)
        half_width == Half(footprint[1])
        half_depth == Half(footprint[2])
        coord == _usable_coordinates(placement, req)
        x_min == coord.x - half_width
        x_max == coord.x + half_width
        y_min == coord.y - half_depth
        y_max == coord.y + half_depth
    IN  (IF x_min < 0 \/ x_max > limit_x
         THEN <<[kind |-> "width", box |-> placement.sequence_index]>>
         ELSE <<>>)
        \o
        (IF y_min < 0 \/ y_max > limit_y
         THEN <<[kind |-> "depth", box |-> placement.sequence_index]>>
         ELSE <<>>)

\* the Collisions _check_pallet_bounds yields for one placement
BoundsIssues(placement, pl, req) ==
    LET limit_x == req.pallet.width + overhang_x(req) * 2
        limit_y == req.pallet.depth + overhang_y(req) * 2
        footprint == _box_footprint(pl, req)
        half_width == Half(footprint[1])
        half_depth == Half(footprint[2])
        coord == _usable_coordinates(placement, req)
        x_min == coord.x - half_width
        x_max == coord.x + half_width
        y_min == coord.y - half_depth
        y_max == coord.y + half_depth
    IN  (IF x_min < 0 - Clearance \/ x_max > limit_x + Clearance
         THEN <<[kind |-> "width", box |-> placement.sequence_index]>>
         ELSE <<>>)
        \o
        (IF y_min < 0 - Clearance \/ y_max > limit_y + Clearance
         THEN <<[kind |-> "depth", box |-> placement.sequence_index]>>
         ELSE <<>>)

\* _check_pallet_bounds over the first n placements
RECURSIVE BoundsUpTo(_, _, _)
BoundsUpTo(pl, req, n) ==
    IF n = 0 THEN <<>>
    ELSE BoundsUpTo(pl, req, n - 1) \o BoundsIssues(pl.placements[n], pl, req)

_check_pallet_bounds(pl, req) == BoundsUpTo(pl, req, Len(pl.placements))

\* the overlap test satisfied by closeness on one axis alone
_overlap_EitherAxis(a, b, width, depth) ==
    \/ Abs(a.x - b.x) < width - Clearance
    \/ Abs(a.y - b.y) < depth - Clearance

_overlap(a, b, width, depth) ==
    /\ Abs(a.x - b.x) < width - Clearance
    /\ Abs(a.y - b.y) < depth - Clearance

\* the Collisions _check_overlap yields for placement i against j = i+1 .. n
RECURSIVE OverlapRow(_, _, _, _)
OverlapRow(pl, req, i, n) ==
    IF n <= i THEN <<>>
    ELSE LET footprint == _box_footprint(pl, req)
             first == pl.placements[i]
             second == pl.placements[n]
         IN  OverlapRow(pl, req, i, n - 1) \o
             (IF _overlap(_usable_coordinates(first, req),
                          _usable_coordinates(second, req),
                          footprint[1], footprint[2])
              THEN <<[kind |-> "collision", first |-> first.sequence_index,
                      second |-> second.sequence_index]>>
              ELSE <<>>)

\* _check_overlap over the first placements 1 .. i
RECURSIVE OverlapUpTo(_, _, _)
OverlapUpTo(pl, req, i) ==
    IF i = 0 THEN <<>>
    ELSE OverlapUpTo(pl, req, i - 1) \o OverlapRow(pl, req, i, Len(pl.placements))

_check_overlap(pl, req) == OverlapUpTo(pl, req, Len(pl.placements))

validate(pl, req) == _check_pallet_bounds(pl, req) \o _check_overlap(pl, req)

(***************************************************************************)
(* Inputs                                                                  *)
(***************************************************************************)
PalletSides == {2 * k : k \in 2..MaxPalletHalf}

BoxSides == {2 * k : k \in 1..MaxBoxHalf}

\* <<pallet.max_overhang, request override>> per axis
OverhangChoices ==
    {<<v, None>> : v \in 0..MaxOverhang} \cup {<<0, Some(MaxOverhang)>>}

LayerRequest(pw, pd, bw, bd, bh, ox, oy, corner, mode, pz, frame) ==
    [pallet |-> [width |-> pw, depth |-> pd,
                 max_overhang_x |-> ox[1], max_overhang_y |-> oy[1]],
     box |-> [id |-> "BX", width |-> bw, depth |-> bd, height |-> bh,
              label_position |-> "front"],
     start_corner |-> corner,
     orientation_mode |-> mode,
     max_overhang_x |-> ox[2],
     max_overhang_y |-> oy[2],
     pickup_offset |-> [z |-> pz],
     reference_frame |-> frame]

IdleRequest ==
    LayerRequest(4, 4, 2, 2, 2, <<0, None>>, <<0, None>>, "SW", "both", 0,
                 DefaultFrame)

IdleArgs ==
    [levels |-> 1, corners |-> None, z_step |-> None,
     collision_checker |-> FALSE, interleaf |-> None, interleaf_frequency |-> 1]

\* no ReferenceFrame is being constructed
IdleTokens == [origin |-> <<"S", "W">>, x_axis |-> <<"E">>, y_axis |-> <<"N">>]

Origin3 == Vector3(0, 0, 0)

\* no grid cell is being named
CellIdle ==
    /\ cell = [row |-> 0, col |-> 0, rows |-> 1, columns |-> 1]
    /\ block = None

\* nothing has been drawn or exported
\* no container has been allocated and nothing was handed over
HeapIdle ==
    /\ heap = <<>>
    /\ refs = <<>>
    /\ approach_overrides = None
    /\ given = [overrides |-> EmptyDict, directions |-> <<>>]

ExportIdle ==
    /\ view_model = None
    /\ plc_rows = <<>>

(***************************************************************************)
(* Frame operations applied by a caller (GUI canvas, exporters)            *)
(***************************************************************************)
MaxOps == 2

FrameRequests ==
    {LayerRequest(pw, 4, 2, 2, 2, <<ox, None>>, <<oy, None>>, "SW", "both", 0, f) :
        pw \in PalletSides, ox \in 0..MaxOverhang, oy \in {0, 2},
        f \in ReferenceFrame}

Probes ==
    {Vector3(x, y, z) : x \in (0 - MaxCoord)..MaxCoord,
                        y \in (0 - MaxCoord)..MaxCoord, z \in {0, 1}}

InitFrame ==
    /\ request \in FrameRequests
    /\ probe \in Probes
    /\ point = probe
    /\ ops = <<>>
    /\ tokens = IdleTokens
    /\ constructed = None
    /\ ExportIdle
    /\ HeapIdle
    /\ CellIdle
    /\ pc = "frame"
    /\ plan = NoPlan
    /\ issues = <<>>
    /\ args = IdleArgs
    /\ level = 0
    /\ current_z = 0
    /\ layers = <<>>
    /\ interleaves = <<>>
    /\ sequence = NoPlan

Transform ==
    /\ pc = "frame"
    /\ Len(ops) < MaxOps
    /\ point' = transform(request.reference_frame, point, request.pallet,
                          overhang_x(request), overhang_y(request))
    /\ ops' = Append(ops, "transform")
    /\ UNCHANGED <<request, heapVars, cellVars, exportVars, pc, probe, tokens, constructed, planVars, stackVars>>

Restore ==
    /\ pc = "frame"
    /\ Len(ops) < MaxOps
    /\ point' = restore(request.reference_frame, point, request.pallet,
                        overhang_x(request), overhang_y(request))
    /\ ops' = Append(ops, "restore")
    /\ UNCHANGED <<request, heapVars, cellVars, exportVars, pc, probe, tokens, constructed, planVars, stackVars>>

NextFrame == Transform \/ Restore

SpecFrame == InitFrame /\ [][NextFrame]_vars

(***************************************************************************)
(* Planning one layer and validating it                                    *)
(***************************************************************************)
PlanRequests ==
    {LayerRequest(pw, pd, bw, bd, 2, ox, oy, corner, mode, 0, f) :
        pw \in PalletSides, pd \in {4}, bw \in BoxSides, bd \in BoxSides,
        ox \in OverhangChoices, oy \in {<<0, None>>, <<1, None>>},
        corner \in {"SW", "NE"}, mode \in OrientationMode, f \in ReferenceFrame}

Init ==
    /\ request \in PlanRequests
    /\ pc = "start"
    /\ plan = NoPlan
    /\ issues = <<>>
    /\ point = Origin3
    /\ probe = Origin3
    /\ ops = <<>>
    /\ tokens = IdleTokens
    /\ constructed = None
    /\ ExportIdle
    /\ HeapIdle
    /\ CellIdle
    /\ args = IdleArgs
    /\ level = 0
    /\ current_z = 0
    /\ layers = <<>>
    /\ interleaves = <<>>
    /\ sequence = NoPlan

\* plan_layer returns the best plan
PlanLayer ==
    /\ pc = "start"
    /\ plan_layer(request) # NoPlan
    /\ plan' = plan_layer(request)
    /\ pc' = "planned"
    /\ UNCHANGED <<request, heapVars, cellVars, exportVars, issues, frameVars, stackVars>>

\* plan_layer raises ValueError("Unable to generate a layer ...")
PlanLayerFails ==
    /\ pc = "start"
    /\ plan_layer(request) = NoPlan
    /\ pc' = "infeasible"
    /\ UNCHANGED <<request, heapVars, cellVars, exportVars, planVars, frameVars, stackVars>>

\* a validator that stores what it finds on the plan it was given
Validate_StoresOnPlan ==
    /\ pc = "planned"
    /\ issues' = validate(plan, request)
    /\ plan' = [plan EXCEPT !.collisions = validate(plan, request)]
    /\ pc' = "validated"
    /\ UNCHANGED <<request, heapVars, cellVars, exportVars, frameVars, stackVars>>

\* CollisionChecker().validate(plan, request)
Validate ==
    /\ pc = "planned"
    /\ issues' = validate(plan, request)
    /\ pc' = "validated"
    /\ UNCHANGED <<request, heapVars, cellVars, exportVars, plan, frameVars, stackVars>>

Next == PlanLayer \/ PlanLayerFails \/ Validate

Spec == Init /\ [][Next]_vars

(***************************************************************************)
(* sequence.py: LayerSequencePlanner.stack_layers                          *)
(***************************************************************************)
\* {**d, **e}: the keys of e override those of d
DictUpdate(d, e) ==
    [k \in (DOMAIN d) \cup (DOMAIN e) |-> IF k \in DOMAIN e THEN e[k] ELSE d[k]]

\* z_increment that always takes the box height
z_increment_BoxHeightOnly(req, a) == req.box.height

\* z_increment = z_step if z_step is not None else request.box.dimensions.height
z_increment(req, a) ==
    IF a.z_step # None THEN Value(a.z_step) ELSE req.box.height

\* ordered_corners = list(corners) if corners else [request.start_corner]
ordered_corners(req, a) ==
    IF a.corners # None /\ Value(a.corners) # <<>>
    THEN Value(a.corners)
    ELSE <<req.start_corner>>

\* the guards with levels < 0 in place of levels <= 0
ConfigError_ZeroLevelsPass(req, a) ==
    \/ a.levels < 0
    \/ z_increment(req, a) <= 0
    \/ a.interleaf_frequency <= 0

\* the three guards at the head of stack_layers
ConfigError(req, a) ==
    \/ a.levels <= 0
    \/ z_increment(req, a) <= 0
    \/ a.interleaf_frequency <= 0

\* for level in range(levels) stopping one level short
InRange_OneShort(a, lv) == lv < a.levels - 1

\* for level in range(levels): whether lv is still to be visited
InRange(a, lv) == lv < a.levels

\* the corner taken without the modulo: levels past the list reuse the last
LevelCorner_NoWrap(req, a, lv) ==
    LET corners == ordered_corners(req, a)
    IN  corners[IF lv + 1 <= Len(corners) THEN lv + 1 ELSE Len(corners)]

\* corner of the level with 0-based index lv
LevelCorner(req, a, lv) ==
    LET corners == ordered_corners(req, a)
    IN  corners[(lv % Len(corners)) + 1]

\* replace(request, start_corner=corner)
level_request(req, a, lv) == [req EXCEPT !.start_corner = LevelCorner(req, a, lv)]

\* the comprehension run over plan.placements[1:]
elevated_SkipsFirst(pl, z) ==
    [i \in 1..(Len(pl.placements) - 1) |->
        [pl.placements[i + 1] EXCEPT !.position.z = @ + z]]

\* the placements of a plan lifted by z
elevated(pl, z) ==
    [i \in DOMAIN pl.placements |->
        [pl.placements[i] EXCEPT !.position.z = @ + z]]

\* the LayerPlan built for 0-based level lv from the planner's result pl
level_plan(pl, req, a, lv, z) ==
    LET built == [placements |-> elevated(pl, z),
                  orientation |-> pl.orientation,
                  fill_ratio |-> pl.fill_ratio,
                  blocks |-> pl.blocks,
                  start_corner |-> LevelCorner(req, a, lv),
                  metadata |-> DictUpdate(pl.metadata,
                                  [k \in {"level", "z_offset"} |->
                                      IF k = "level" THEN lv + 1 ELSE z]),
                  collisions |-> <<>>,
                  box |-> pl.box,
                  approach_overrides |-> pl.approach_overrides]
    IN  IF a.collision_checker
        THEN [built EXCEPT !.collisions = validate(built, level_request(req, a, lv))]
        ELSE built

\* the test without (level + 1) < levels: a sheet also tops the last level
SheetAfter_AlsoOnTop(a, lv) ==
    /\ a.interleaf # None
    /\ (lv + 1) % a.interleaf_frequency = 0

\* whether a sheet is laid after the level with 0-based index lv
SheetAfter(a, lv) ==
    /\ a.interleaf # None
    /\ (lv + 1) < a.levels
    /\ (lv + 1) % a.interleaf_frequency = 0

\* current_z advanced by z_increment only, the sheet not counted
NextZ_SheetNotCounted(req, a, lv, z) == z + z_increment(req, a)

\* current_z at the end of the iteration for 0-based level lv
NextZ(req, a, lv, z) ==
    IF SheetAfter(a, lv)
    THEN z + z_increment(req, a) + Value(a.interleaf).thickness
    ELSE z + z_increment(req, a)

InterleafPlacement(lv, z, sheet) ==
    [level |-> lv, z_position |-> z, interleaf |-> sheet]

\* metadata of the returned LayerSequencePlan
sequence_metadata(req, a) ==
    [levels |-> a.levels,
     z_step |-> z_increment(req, a),
     corners |-> ordered_corners(req, a),
     reference_origin |-> req.reference_frame.origin,
     reference_axes |-> <<req.reference_frame.x_axis, req.reference_frame.y_axis>>,
     interleaf |-> IF a.interleaf # None
                   THEN Some([id |-> Value(a.interleaf).id,
                              thickness |-> Value(a.interleaf).thickness,
                              frequency |-> a.interleaf_frequency])
                   ELSE None]

Sheet == [id |-> "IL", thickness |-> 1]

StackRequests ==
    {LayerRequest(6, 4, b[1], b[2], bh, <<MaxOverhang, None>>, <<0, None>>, "SW", "both", pz, f) :
        b \in {<<2, 2>>, <<4, 2>>, <<2 * MaxBoxHalf, 2 * MaxBoxHalf>>},
        bh \in {0, 4}, pz \in {0, 1},
        f \in {DefaultFrame, [origin |-> "CENTER", x_axis |-> "W", y_axis |-> "N"]}}

StackArgs ==
    [levels : 0..MaxLevels,
     corners : {None, Some(<<>>), Some(<<"SW", "NE">>), Some(<<"NE", "SE", "NW">>)},
     z_step : {None, Some(0 - 2), Some(0), Some(3)},
     collision_checker : BOOLEAN,
     interleaf : {None, Some(Sheet)},
     interleaf_frequency : 0..MaxFrequency]

InitStack ==
    /\ request \in StackRequests
    /\ args \in StackArgs
    /\ pc = "call"
    /\ level = 0
    /\ current_z = 0
    /\ layers = <<>>
    /\ interleaves = <<>>
    /\ sequence = NoPlan
    /\ plan = NoPlan
    /\ issues = <<>>
    /\ point = Origin3
    /\ probe = Origin3
    /\ ops = <<>>
    /\ tokens = IdleTokens
    /\ constructed = None
    /\ ExportIdle
    /\ HeapIdle
    /\ CellIdle

\* one of the guards raises ValueError
StackRejects ==
    /\ pc = "call"
    /\ ConfigError(request, args)
    /\ pc' = "config_error"
    /\ UNCHANGED <<request, heapVars, cellVars, exportVars, planVars, frameVars, stackVars>>

\* the guards pass; the loop starts with no layer and current_z = 0.0
StackEnters ==
    /\ pc = "call"
    /\ ~ConfigError(request, args)
    /\ pc' = "loop"
    /\ level' = 0
    /\ current_z' = 0
    /\ layers' = <<>>
    /\ interleaves' = <<>>
    /\ UNCHANGED <<request, heapVars, cellVars, exportVars, planVars, frameVars, args, sequence>>

\* one iteration of the loop body
StackLevel ==
    /\ pc = "loop"
    /\ InRange(args, level)
    /\ plan_layer(level_request(request, args, level)) # NoPlan
    /\ LET pl == plan_layer(level_request(request, args, level))
       IN  layers' = Append(layers, level_plan(pl, request, args, level, current_z))
    /\ interleaves' =
           IF SheetAfter(args, level)
           THEN Append(interleaves,
                       InterleafPlacement(level + 1,
                                          current_z + z_increment(request, args),
                                          Value(args.interleaf)))
           ELSE interleaves
    /\ current_z' = NextZ(request, args, level, current_z)
    /\ level' = level + 1
    /\ UNCHANGED <<request, heapVars, cellVars, exportVars, pc, planVars, frameVars, args, sequence>>

\* the planner's error caught and the level skipped
StackLevelFails_SkipsLevel ==
    /\ pc = "loop"
    /\ InRange(args, level)
    /\ plan_layer(level_request(request, args, level)) = NoPlan
    /\ level' = level + 1
    /\ current_z' = NextZ(request, args, level, current_z)
    /\ UNCHANGED <<request, heapVars, cellVars, exportVars, pc, planVars, frameVars, args, layers, interleaves,
                   sequence>>

\* plan_layer raises inside the loop and the error leaves stack_layers
StackLevelFails ==
    /\ pc = "loop"
    /\ InRange(args, level)
    /\ plan_layer(level_request(request, args, level)) = NoPlan
    /\ pc' = "infeasible"
    /\ UNCHANGED <<request, heapVars, cellVars, exportVars, planVars, frameVars, stackVars>>

\* the loop is over: the LayerSequencePlan is returned
StackReturns ==
    /\ pc = "loop"
    /\ ~InRange(args, level)
    /\ sequence' = [layers |-> layers,
                    metadata |-> sequence_metadata(request, args),
                    interleaves |-> interleaves]
    /\ pc' = "returned"
    /\ UNCHANGED <<request, heapVars, cellVars, exportVars, planVars, frameVars, args, level, current_z,
                   layers, interleaves>>

RECURSIVE SumOfPlacements(_)

\* sum(len(layer.placements) for layer in layers)
SumOfPlacements(ls) ==
    IF ls = <<>> THEN 0
    ELSE Len(Head(ls).placements) + SumOfPlacements(Tail(ls))

\* LayerSequencePlan.total_boxes
total_boxes(seq) == SumOfPlacements(seq.layers)

NextStack ==
    StackRejects \/ StackEnters \/ StackLevel \/ StackLevelFails \/ StackReturns

SpecStack == InitStack /\ [][NextStack]_vars

(***************************************************************************)
(* Constructing a ReferenceFrame from three strings                        *)
(***************************************************************************)
OriginStrings ==
    {Spelling[t] : t \in Origins}
        \cup {<<"C">>, <<"c">>, <<"s", "w">>, <<"S", "e">>, <<"n", "W">>,
              <<"n", "e">>, <<"c", "e", "n", "t", "e", "r">>,
              <<"C", "e", "n", "t", "e", "r">>,
              <<>>, <<"N">>, <<"W", "S">>, <<"S", "W", "W">>, <<" ", "S", "W">>,
              <<"C", "E", "N", "T", "R", "E">>, <<"0">>}

XAxisStrings ==
    {<<"E">>, <<"W">>, <<"e">>, <<"w">>, <<"N">>, <<"s">>, <<>>, <<"E", "N">>,
     <<"E", " ">>, <<"X">>}

YAxisStrings ==
    {<<"N">>, <<"S">>, <<"n">>, <<"s">>, <<"E">>, <<"w">>, <<>>, <<"N", "S">>,
     <<" ", "N">>, <<"y">>}

InitConstruct ==
    /\ tokens \in [origin : OriginStrings, x_axis : XAxisStrings,
                   y_axis : YAxisStrings]
    /\ constructed = None
    /\ ExportIdle
    /\ HeapIdle
    /\ CellIdle
    /\ pc = "start"
    /\ request = IdleRequest
    /\ plan = NoPlan
    /\ issues = <<>>
    /\ point = Origin3
    /\ probe = Origin3
    /\ ops = <<>>
    /\ args = IdleArgs
    /\ level = 0
    /\ current_z = 0
    /\ layers = <<>>
    /\ interleaves = <<>>
    /\ sequence = NoPlan

\* ReferenceFrame(origin, x_axis, y_axis) stores the canonical tokens
Construct ==
    /\ pc = "start"
    /\ ReferenceFrame__post_init__(tokens.origin, tokens.x_axis, tokens.y_axis) # None
    /\ constructed' =
           ReferenceFrame__post_init__(tokens.origin, tokens.x_axis, tokens.y_axis)
    /\ pc' = "constructed"
    /\ UNCHANGED <<request, heapVars, cellVars, exportVars, point, probe, ops, tokens, planVars, stackVars>>

\* ReferenceFrame(origin, x_axis, y_axis) raises ValueError
ConstructFails ==
    /\ pc = "start"
    /\ ReferenceFrame__post_init__(tokens.origin, tokens.x_axis, tokens.y_axis) = None
    /\ pc' = "invalid"
    /\ UNCHANGED <<request, heapVars, cellVars, exportVars, frameVars, planVars, stackVars>>

NextConstruct == Construct \/ ConstructFails

SpecConstruct == InitConstruct /\ [][NextConstruct]_vars

(***************************************************************************)
(* Consumers of a plan: the canvas view model and the PLC export           *)
(***************************************************************************)
MaxViewOverhang == 2   \* overhang of the drawn requests ranges over 0 .. this

\* gui._box_footprint
gui_box_footprint(width, depth, rotation) ==
    IF rotation % 180 = 0 THEN <<width, depth>> ELSE <<depth, width>>

\* gui.build_layer_view_model (the colour of a glyph, a hash of its block
\* name that changes from one process to the next, is left out)
build_layer_view_model(pl, req) ==
    [pallet_width |-> req.pallet.width,
     pallet_depth |-> req.pallet.depth,
     overhang_x |-> overhang_x(req),
     overhang_y |-> overhang_y(req),
     placements |->
         [i \in DOMAIN pl.placements |->
             LET placement == pl.placements[i]
                 physical == restore(req.reference_frame, placement.position,
                                     req.pallet, overhang_x(req), overhang_y(req))
                 footprint == gui_box_footprint(req.box.width, req.box.depth,
                                                placement.rotation)
             IN  [placement_index |-> i - 1,
                  block |-> placement.block,
                  center |-> physical,
                  width |-> footprint[1],
                  depth |-> footprint[2],
                  rotation |-> placement.rotation]]]

\* apply_approach with no block overrides
apply_approach(pl, direction, distance) ==
    [pl EXCEPT !.metadata =
                   DictUpdate(@, [k \in {"approach_direction", "approach_distance"} |->
                                     IF k = "approach_direction" THEN direction
                                     ELSE distance]),
               !.approach_overrides = EmptyDict]

\* PlacementAnnotator.__init__: default_approach = 75.0 mm
default_approach == 75000

\* PlacementAnnotator.__init__: label_offset = 5.0 mm
label_offset == 5000

\* annotations._face_vector
_face_vector(box, face) ==
    LET half_width == Half(box.width)
        half_depth == Half(box.depth)
        half_height == Half(box.height)
    IN  CASE face = "back" -> Vector3(0, 0 - (half_depth + label_offset), half_height)
          [] face \in {"side", "right"} ->
                 Vector3(half_width + label_offset, 0, half_height)
          [] face = "left" -> Vector3(0 - (half_width + label_offset), 0, half_height)
          [] OTHER -> Vector3(0, half_depth + label_offset, half_height)

\* annotations._rotate_vector for a quarter turn or none
_rotate_vector(vector, rotation_deg) ==
    IF rotation_deg = 0 THEN vector
    ELSE Vector3(0 - vector.y, vector.x, vector.z)

\* PlacementAnnotator.annotate: one annotation per placement, none for an
\* empty plan
annotate(pl) ==
    IF pl.placements = <<>> THEN <<>>
    ELSE LET direction == IF "approach_direction" \in DOMAIN pl.metadata
                          THEN pl.metadata["approach_direction"]
                          ELSE pl.start_corner
             distance == IF "approach_distance" \in DOMAIN pl.metadata
                         THEN pl.metadata["approach_distance"]
                         ELSE default_approach
         IN  [i \in DOMAIN pl.placements |->
                 LET placement == pl.placements[i]
                     rotated == _rotate_vector(
                                    _face_vector(pl.box, pl.box.label_position),
                                    placement.rotation)
                 IN  [placement_index |-> placement.sequence_index,
                      label_position |->
                          Vector3(placement.position.x + rotated.x,
                                  placement.position.y + rotated.y,
                                  placement.position.z + rotated.z),
                      approach_direction |-> direction,
                      approach_distance |-> distance]]

\* the rows of one layer, numbered after `counter` rows already written
LayerRows(layer, layer_idx, counter) ==
    LET annotated == annotate(layer)
        \* annotations[sequence_index]: the last annotation with that index
        Found(idx) == {j \in DOMAIN annotated : annotated[j].placement_index = idx}
        Last(idx) == CHOOSE j \in Found(idx) : \A k \in Found(idx) : k <= j
    IN  [i \in DOMAIN layer.placements |->
            LET placement == layer.placements[i]
                annotation == IF Found(placement.sequence_index) = {} THEN None
                              ELSE Some(annotated[Last(placement.sequence_index)])
            IN  [index |-> counter + i,
                 layer |-> layer_idx,
                 block |-> placement.block,
                 x |-> placement.position.x,
                 y |-> placement.position.y,
                 z |-> placement.position.z,
                 rotation |-> placement.rotation,
                 approach_direction |->
                     IF annotation = None THEN None
                     ELSE Some(Value(annotation).approach_direction),
                 approach_distance |->
                     IF annotation = None THEN None
                     ELSE Some(Value(annotation).approach_distance),
                 label |->
                     IF annotation = None THEN None
                     ELSE Some(Value(annotation).label_position)]]

RECURSIVE RowsUpTo(_, _)

\* the rows of the first n layers
RowsUpTo(ls, n) ==
    IF n = 0 THEN <<>>
    ELSE LET before == RowsUpTo(ls, n - 1)
         IN  before \o LayerRows(ls[n], n, Len(before))

\* SiemensPLCExporter._build_rows
_build_rows(ls) == RowsUpTo(ls, Len(ls))

ViewRequests ==
    {LayerRequest(pw, 4, b[1], b[2], 2, <<ox, None>>, <<oy, None>>, "SW", "both", 0, f) :
        pw \in {4, 6}, b \in {<<2, 2>>, <<4, 2>>, <<8, 8>>},
        ox \in 0..MaxViewOverhang, oy \in {0, 1}, f \in ReferenceFrame}

InitExport ==
    /\ request \in ViewRequests
    /\ pc = "start"
    /\ plan = NoPlan
    /\ issues = <<>>
    /\ point = Origin3
    /\ probe = Origin3
    /\ ops = <<>>
    /\ tokens = IdleTokens
    /\ constructed = None
    /\ ExportIdle
    /\ HeapIdle
    /\ CellIdle
    /\ args = IdleArgs
    /\ level = 0
    /\ current_z = 0
    /\ layers = <<>>
    /\ interleaves = <<>>
    /\ sequence = NoPlan

\* the canvas draws the plan: build_layer_view_model(plan, request)
BuildLayerViewModel ==
    /\ pc = "planned"
    /\ view_model' = Some(build_layer_view_model(plan, request))
    /\ pc' = "drawn"
    /\ UNCHANGED <<request, heapVars, cellVars, plc_rows, planVars, frameVars, stackVars>>

\* run_plc for one layer: apply_approach on the plan, then the exporter
\* builds its rows
ExportPLC ==
    /\ pc = "planned"
    /\ \E direction \in {None, Some("N"), Some("SE")} :
           LET chosen == IF direction = None THEN request.start_corner
                         ELSE Value(direction)
               approached == apply_approach(plan, chosen, default_approach)
           IN  /\ plan' = approached
               /\ plc_rows' = _build_rows(<<approached>>)
    /\ pc' = "exported"
    /\ UNCHANGED <<request, heapVars, cellVars, view_model, issues, frameVars, stackVars>>

NextExport == PlanLayer \/ PlanLayerFails \/ BuildLayerViewModel \/ ExportPLC

SpecExport == InitExport /\ [][NextExport]_vars

(***************************************************************************)
(* The dict and list objects of stacked layers.  An object is an entry of  *)
(* heap, its address the index; a layer refers to its blocks, metadata,    *)
(* collisions and approach_overrides by address, so that two layers        *)
(* holding the same object is told apart from two layers holding equal     *)
(* contents.                                                               *)
(***************************************************************************)
\* address of the overrides dict the caller owns
Overrides == 1

\* the objects one loop iteration of stack_layers allocates on top of heap h:
\* the four containers of the planner's plan pl, then blocks.copy(), the new
\* metadata dict, the [] of collisions, the copy of the overrides (those of
\* the caller when a non-empty dict was passed, else those of pl), and the
\* list of descriptions when a collision checker was passed
LevelContainers(h, pl, lp, a, ao) ==
    LET copied == IF ao # None /\ DOMAIN h[Value(ao)] # {}
                  THEN h[Value(ao)]
                  ELSE pl.approach_overrides
    IN  <<pl.blocks, pl.metadata, pl.collisions, pl.approach_overrides,
          lp.blocks, lp.metadata, <<>>, copied>>
            \o (IF a.collision_checker THEN <<lp.collisions>> ELSE <<>>)

\* the overrides argument stored on the level as it is, without .copy()
LevelRefs_KeepsArgument(n, a, ao) ==
    [blocks |-> n + 5,
     metadata |-> n + 6,
     collisions |-> IF a.collision_checker THEN n + 9 ELSE n + 7,
     approach_overrides |-> IF ao # None THEN Value(ao) ELSE n + 8]

\* where the containers of level_plan sit among those LevelContainers
\* allocates on a heap of n objects
LevelRefs(n, a, ao) ==
    [blocks |-> n + 5,
     metadata |-> n + 6,
     collisions |-> IF a.collision_checker THEN n + 9 ELSE n + 7,
     approach_overrides |-> n + 8]

Directions == {"N", "SE", "W"}

ApproachConfig(direction, distance) ==
    [direction |-> direction, distance |-> distance]

\* the overrides dict of the caller at the time of the call
OverridesChoices ==
    {EmptyDict,
     [k \in {"center"} |-> ApproachConfig("E", 90000)],
     [k \in {"center", "north"} |->
         IF k = "center" THEN ApproachConfig("E", 90000)
         ELSE ApproachConfig("NE", 85000)]}

ShareRequests ==
    {LayerRequest(6, 4, b[1], b[2], bh, <<0, None>>, <<0, None>>, "SW", "both", 0,
                  DefaultFrame) :
        b \in {<<2, 2>>, <<4, 2>>}, bh \in {2, 4}}

ShareArgs ==
    [levels : 1..MaxLevels,
     corners : {None, Some(<<"SW", "NE">>)},
     z_step : {None, Some(3)},
     collision_checker : BOOLEAN,
     interleaf : {None},
     interleaf_frequency : {1}]

InitShare ==
    /\ request \in ShareRequests
    /\ args \in ShareArgs
    /\ \E content \in OverridesChoices :
           /\ heap = <<content>>
           /\ given = [overrides |-> content, directions |-> <<>>]
    /\ approach_overrides \in {None, Some(Overrides)}
    /\ refs = <<>>
    /\ pc = "call"
    /\ level = 0
    /\ current_z = 0
    /\ layers = <<>>
    /\ interleaves = <<>>
    /\ sequence = NoPlan
    /\ plan = NoPlan
    /\ issues = <<>>
    /\ point = Origin3
    /\ probe = Origin3
    /\ ops = <<>>
    /\ tokens = IdleTokens
    /\ constructed = None
    /\ view_model = None
    /\ plc_rows = <<>>
    /\ CellIdle

\* one iteration of the loop body, with the objects it allocates
ShareLevel ==
    /\ pc = "loop"
    /\ InRange(args, level)
    /\ plan_layer(level_request(request, args, level)) # NoPlan
    /\ LET pl == plan_layer(level_request(request, args, level))
           lp == level_plan(pl, request, args, level, current_z)
       IN  /\ layers' = Append(layers, lp)
           /\ heap' = heap \o LevelContainers(heap, pl, lp, args, approach_overrides)
           /\ refs' = Append(refs, LevelRefs(Len(heap), args, approach_overrides))
    /\ interleaves' =
           IF SheetAfter(args, level)
           THEN Append(interleaves,
                       InterleafPlacement(level + 1,
                                          current_z + z_increment(request, args),
                                          Value(args.interleaf)))
           ELSE interleaves
    /\ current_z' = NextZ(request, args, level, current_z)
    /\ level' = level + 1
    /\ UNCHANGED <<request, cellVars, exportVars, pc, planVars, frameVars, args,
                   sequence, approach_overrides, given>>

\* apply_approach(layer, direction, distance, overrides) on the next layer of
\* the returned sequence: two keys are stored in the layer's own metadata
\* dict and the layer's approach_overrides becomes a new copy of overrides
ApplyApproach ==
    /\ pc = "returned"
    /\ Len(given.directions) < Len(refs)
    /\ \E direction \in Directions :
           LET i == Len(given.directions) + 1
               layer == [metadata |-> heap[refs[i].metadata],
                         approach_overrides |-> heap[refs[i].approach_overrides]]
               applied == apply_approach(layer, direction, default_approach)
           IN  /\ heap' = Append([heap EXCEPT ![refs[i].metadata] = applied.metadata],
                                 heap[Overrides])
               /\ refs' = [refs EXCEPT ![i].approach_overrides = Len(heap) + 1]
               /\ given' = [given EXCEPT !.directions = Append(@, direction)]
    /\ UNCHANGED <<request, cellVars, exportVars, pc, planVars, frameVars, stackVars,
                   approach_overrides>>

\* the caller changes its own overrides dict once every layer has its approach
MutateOverrides ==
    /\ pc = "returned"
    /\ Len(given.directions) = Len(refs)
    /\ \/ heap' = [heap EXCEPT ![Overrides] =
                      DictUpdate(@, [k \in {"center"} |-> ApproachConfig("W", 10000)])]
       \/ heap' = [heap EXCEPT ![Overrides] =
                      DictUpdate(@, [k \in {"south"} |-> ApproachConfig("S", 10000)])]
    /\ pc' = "mutated"
    /\ UNCHANGED <<request, cellVars, exportVars, planVars, frameVars, stackVars,
                   refs, approach_overrides, given>>

NextShare ==
    StackEnters \/ ShareLevel \/ StackReturns \/ ApplyApproach \/ MutateOverrides

SpecShare == InitShare /\ [][NextShare]_vars

(***************************************************************************)
(* plan_layer on requests whose dimensions were never validated            *)
(***************************************************************************)
\* Dimensions and Pallet accept any number: sides may be zero or negative
UncheckedRequests ==
    {LayerRequest(pw, pd, bw, bd, 2, <<ox, None>>, <<0, None>>, "SW", mode, 0,
                  DefaultFrame) :
        pw \in {0 - 4, 0, 4}, pd \in {0, 4}, bw \in {0 - 2, 0, 2},
        bd \in {0 - 2, 0, 2}, ox \in {0, 1, 3}, mode \in OrientationMode}

InitUnchecked ==
    /\ request \in UncheckedRequests
    /\ pc = "start"
    /\ plan = NoPlan
    /\ issues = <<>>
    /\ point = Origin3
    /\ probe = Origin3
    /\ ops = <<>>
    /\ tokens = IdleTokens
    /\ constructed = None
    /\ ExportIdle
    /\ HeapIdle
    /\ CellIdle
    /\ args = IdleArgs
    /\ level = 0
    /\ current_z = 0
    /\ layers = <<>>
    /\ interleaves = <<>>
    /\ sequence = NoPlan

\* usable_width / width or usable_depth / depth divides by a zero box side
\* (each orientation divides by both sides of the box)
DividesByZero(req) == req.box.width = 0 \/ req.box.depth = 0

\* plan_layer raises ZeroDivisionError out of _plan_orientation
PlanLayerDividesByZero ==
    /\ pc = "start"
    /\ DividesByZero(request)
    /\ pc' = "zero_division"
    /\ UNCHANGED <<request, heapVars, cellVars, exportVars, planVars, frameVars, stackVars>>

\* plan_layer returns a plan
PlanUncheckedLayer == ~DividesByZero(request) /\ PlanLayer

\* plan_layer raises ValueError("Unable to generate a layer ...")
PlanUncheckedLayerFails == ~DividesByZero(request) /\ PlanLayerFails

NextUnchecked ==
    PlanLayerDividesByZero \/ PlanUncheckedLayer \/ PlanUncheckedLayerFails

SpecUnchecked == InitUnchecked /\ [][NextUnchecked]_vars

(***************************************************************************)
(* Naming the block of one grid cell                                       *)
(***************************************************************************)
MaxGrid == 5   \* rows and columns of the grid range over 1 .. MaxGrid

InitBlocks ==
    /\ \E rows \in 1..MaxGrid, columns \in 1..MaxGrid :
           \E row \in 0..(rows - 1), col \in 0..(columns - 1) :
               cell = [row |-> row, col |-> col, rows |-> rows, columns |-> columns]
    /\ block = None
    /\ pc = "start"
    /\ request = IdleRequest
    /\ plan = NoPlan
    /\ issues = <<>>
    /\ point = Origin3
    /\ probe = Origin3
    /\ ops = <<>>
    /\ tokens = IdleTokens
    /\ constructed = None
    /\ ExportIdle
    /\ HeapIdle
    /\ args = IdleArgs
    /\ level = 0
    /\ current_z = 0
    /\ layers = <<>>
    /\ interleaves = <<>>
    /\ sequence = NoPlan

\* block_name = self._block_name(row, col, rows, columns)
BlockName ==
    /\ pc = "start"
    /\ block' = Some(_block_name(cell.row, cell.col, cell.rows, cell.columns))
    /\ pc' = "named"
    /\ UNCHANGED <<request, heapVars, cell, exportVars, planVars, frameVars, stackVars>>

NextBlocks == BlockName

SpecBlocks == InitBlocks /\ [][NextBlocks]_vars

(***************************************************************************)
(* A caller that either plans and validates one layer or stacks layers     *)
(***************************************************************************)
InitPlanOrStack == Init \/ InitStack

NextPlanOrStack == Next \/ NextStack

SpecPlanOrStack == InitPlanOrStack /\ [][NextPlanOrStack]_vars

(***************************************************************************)
(* Properties                                                              *)
(***************************************************************************)
Returned == pc \in {"planned", "validated"}

\* the candidate of the i-th allowed orientation of the request
Candidate(i) == _frame_orientation(request, allowed_orientations(request)[i])

\* the allowed orientations, by index, whose candidate has a placement
Feasible ==
    {i \in DOMAIN allowed_orientations(request) : Candidate(i).placements # <<>>}

\* C1: for every frame, pallet and overhang pair, restoring a transformed
\* position and transforming a restored position both give back the
\* position the caller started from, in x, y and z.
FrameRoundTrip ==
    (ops = <<"transform", "restore">> \/ ops = <<"restore", "transform">>)
        => point = probe

FrameRoundTripWitness ==
    /\ ops = <<"restore", "transform">>
    /\ request.reference_frame = [origin |-> "CENTER", x_axis |-> "W", y_axis |-> "S"]
    /\ overhang_x(request) > 0
    /\ probe.x # 0 /\ probe.y # 0 /\ probe.z # 0
    /\ point = probe

\* C2: a returned plan is the candidate of greatest fill ratio among the
\* allowed orientations that yield a placement, and among candidates of
\* equal fill ratio it is the first one evaluated.
BestFillFirstOfTies ==
    Returned =>
        \E i \in Feasible :
            /\ plan = Candidate(i)
            /\ \A j \in Feasible :
                   ~RatioGreater(Candidate(j).fill_ratio, plan.fill_ratio)
            /\ \A j \in Feasible :
                   j < i => RatioGreater(plan.fill_ratio, Candidate(j).fill_ratio)

BestFillFirstOfTiesWitness ==
    /\ pc = "planned"
    /\ request.orientation_mode = "both"
    /\ Feasible = {1, 2}
    /\ Candidate(1) # Candidate(2)
    /\ ~RatioGreater(Candidate(1).fill_ratio, Candidate(2).fill_ratio)
    /\ ~RatioGreater(Candidate(2).fill_ratio, Candidate(1).fill_ratio)
    /\ plan.orientation = 0

\* C3: plan_layer fails as infeasible exactly when every allowed orientation
\* has zero columns or zero rows, and a plan it returns has a placement.
InfeasibleIffNoFit ==
    LET allowed == allowed_orientations(request)
        NoFit == \A i \in DOMAIN allowed :
                     \/ Columns(request, allowed[i]) = 0
                     \/ Rows(request, allowed[i]) = 0
    IN  /\ pc = "infeasible" => NoFit
        /\ Returned => (~NoFit /\ Len(plan.placements) >= 1)

InfeasibleIffNoFitWitness ==
    /\ pc = "infeasible"
    /\ request.orientation_mode = "both"
    /\ Columns(request, 0) > 0 /\ Rows(request, 0) = 0
    /\ Columns(request, 90) = 0 /\ Rows(request, 90) > 0

\* C4: validating the plan plan_layer returned for a request yields no
\* defect, whatever the reference frame and overhang; and every level
\* stack_layers builds with a collision checker carries no defect.
PlannedLayerIsClean ==
    /\ pc = "validated" => issues = <<>>
    /\ \A i \in DOMAIN layers : layers[i].collisions = <<>>

PlannedLayerIsCleanWitness ==
    /\ pc = "validated"
    /\ issues = <<>>
    /\ request.reference_frame = [origin |-> "NE", x_axis |-> "W", y_axis |-> "S"]
    /\ overhang_x(request) > 0
    /\ plan.orientation = 90
    /\ Len(plan.placements) >= 4

\* the levels argument, the sheet and the frequency of the current call
Levels == args.levels

\* the Z step the caller asked for: the supplied one, else the box height
AskedStep == IF args.z_step # None THEN args.z_step[1] ELSE request.box.height

\* the corner list the caller asked for
AskedCorners ==
    IF args.corners = None \/ args.corners = Some(<<>>)
    THEN <<request.start_corner>>
    ELSE args.corners[1]

\* the 1-based levels that are followed by a sheet
SheetLevels ==
    IF args.interleaf = None THEN {}
    ELSE {L \in 1..(Levels - 1) : L % args.interleaf_frequency = 0}

\* the least placement Z of a layer
MinZ(layer) ==
    CHOOSE z \in {layer.placements[i].position.z : i \in DOMAIN layer.placements} :
        \A i \in DOMAIN layer.placements : z <= layer.placements[i].position.z

\* C5: a returned sequence holds exactly `levels` layers, in level order.
SequenceHasAllLevels ==
    pc = "returned" =>
        /\ Len(sequence.layers) = Levels
        /\ \A k \in DOMAIN sequence.layers : sequence.layers[k].metadata.level = k

SequenceHasAllLevelsWitness ==
    /\ pc = "returned"
    /\ Levels = MaxLevels
    /\ Len(sequence.layers) = MaxLevels
    /\ args.corners = Some(<<"SW", "NE">>)
    /\ args.interleaf # None

\* C6: every sheet of a returned sequence lies between two layers: the
\* sheets are exactly the levels L of 1..levels-1 with L mod frequency = 0,
\* one each, in increasing order; none with one level or without interleaf.
SheetsOnlyBetweenLayers ==
    pc = "returned" =>
        LET sheets == sequence.interleaves
        IN  /\ \A i \in DOMAIN sheets :
                   1 <= sheets[i].level /\ sheets[i].level <= Levels - 1
            /\ {sheets[i].level : i \in DOMAIN sheets} = SheetLevels
            /\ \A i, j \in DOMAIN sheets :
                   i < j => sheets[i].level < sheets[j].level
            /\ (Levels = 1 \/ args.interleaf = None) => sheets = <<>>

SheetsOnlyBetweenLayersWitness ==
    /\ pc = "returned"
    /\ Levels = 3
    /\ args.interleaf # None
    /\ args.interleaf_frequency = 2
    /\ Len(sequence.interleaves) = 1
    /\ sequence.interleaves[1].level = 2

\* C7: with an interleaf of thickness t, placements of consecutive levels
\* differ in Z by z_step + t where a sheet lies between them and by z_step
\* elsewhere; a sheet's z_position is the Z offset of the level below it
\* plus z_step; frequency 1 and 3 levels give sheets at levels 1 and 2.
SheetLiftsNextLevel ==
    (pc = "returned" /\ args.interleaf # None) =>
        LET t == args.interleaf[1].thickness
            ls == sequence.layers
            sheets == sequence.interleaves
        IN  /\ \A k \in 1..(Len(ls) - 1) :
                   \A i \in DOMAIN ls[k].placements :
                       ls[k + 1].placements[i].position.z
                         - ls[k].placements[i].position.z
                       = IF \E s \in DOMAIN sheets : sheets[s].level = k
                         THEN AskedStep + t
                         ELSE AskedStep
            /\ \A s \in DOMAIN sheets :
                   sheets[s].z_position
                       = ls[sheets[s].level].metadata.z_offset + AskedStep
            /\ (args.interleaf_frequency = 1 /\ Levels = 3) =>
                   [s \in DOMAIN sheets |-> sheets[s].level] = <<1, 2>>

SheetLiftsNextLevelWitness ==
    /\ pc = "returned"
    /\ args.interleaf # None
    /\ args.interleaf_frequency = 1
    /\ Levels = 3
    /\ Len(sequence.interleaves) = 2
    /\ args.z_step = Some(3)
    /\ sequence.layers[3].placements[1].position.z
         - sequence.layers[2].placements[1].position.z = 3 + Sheet.thickness

\* C8: without interleaves the least placement Z of each level exceeds that
\* of the level before by exactly z_step (the supplied value, else the box
\* height); with pickup Z 0 and no z_step the bases are 0, h, 2h, ...
LevelBasesStepByZStep ==
    (pc = "returned" /\ sequence.interleaves = <<>>) =>
        LET ls == sequence.layers
        IN  /\ \A k \in 1..(Len(ls) - 1) :
                   MinZ(ls[k + 1]) - MinZ(ls[k]) = AskedStep
            /\ (request.pickup_offset.z = 0 /\ args.z_step = None) =>
                   \A k \in DOMAIN ls : MinZ(ls[k]) = (k - 1) * request.box.height

LevelBasesStepByZStepWitness ==
    /\ pc = "returned"
    /\ args.interleaf = None
    /\ args.z_step = None
    /\ request.pickup_offset.z = 0
    /\ Levels = 3
    /\ [k \in 1..3 |-> MinZ(sequence.layers[k])]
           = <<0, request.box.height, 2 * request.box.height>>

\* C9: the layer of 0-based level k starts at corners[k mod len(corners)],
\* and at the request's start corner when corners is None or empty.
LevelCornersRotate ==
    pc = "returned" =>
        \A k \in 0..(Levels - 1) :
            sequence.layers[k + 1].start_corner
                = AskedCorners[(k % Len(AskedCorners)) + 1]

LevelCornersRotateWitness ==
    /\ pc = "returned"
    /\ Levels = 3
    /\ args.corners = Some(<<"SW", "NE">>)
    /\ [k \in 1..3 |-> sequence.layers[k].start_corner] = <<"SW", "NE", "SW">>

\* C10: stack_layers raises a configuration error whenever levels <= 0,
\* the effective z_step <= 0 or interleaf_frequency <= 0, before any layer
\* is planned: no sequence, layer or sheet is produced.
BadConfigurationRejectedFirst ==
    (Levels <= 0 \/ AskedStep <= 0 \/ args.interleaf_frequency <= 0) =>
        /\ pc \in {"call", "config_error"}
        /\ layers = <<>>
        /\ interleaves = <<>>
        /\ sequence = NoPlan

BadConfigurationRejectedFirstWitness ==
    /\ pc = "config_error"
    /\ Levels = 0
    /\ AskedStep > 0
    /\ args.interleaf_frequency > 0
    /\ layers = <<>>
    /\ sequence = NoPlan

\* whether the planner finds no layer for some level of the current call
SomeLevelInfeasible ==
    \E lv \in 0..(Levels - 1) :
        \A o \in {0, 90} :
            (request.orientation_mode = "both"
               \/ (o = 0 /\ request.orientation_mode = "width")
               \/ (o = 90 /\ request.orientation_mode = "depth"))
            => (Columns(request, o) = 0 \/ Rows(request, o) = 0)

\* C11: when plan_layer fails for a level, stack_layers ends in that error
\* at once and returns nothing: no sequence, and in particular none with
\* fewer than `levels` layers, ever comes out of such a call.
InfeasibleLevelAbortsStack ==
    /\ pc = "infeasible" => (SomeLevelInfeasible /\ sequence = NoPlan)
    /\ SomeLevelInfeasible => (pc # "returned" /\ sequence = NoPlan)
    /\ sequence # NoPlan => Len(sequence.layers) >= Levels

InfeasibleLevelAbortsStackWitness ==
    /\ pc = "infeasible"
    /\ Levels = MaxLevels
    /\ level = 0
    /\ layers = <<>>
    /\ sequence = NoPlan
    /\ args.collision_checker

(***************************************************************************)
(* Validating a plan whose placements were moved by hand (canvas drag,     *)
(* project files): validate() accepts any plan                             *)
(***************************************************************************)
MaxCentre == 3         \* hand-placed centres range over 0 .. MaxCentre per axis

\* centres in the usable rectangle
Centres == {Vector3(x, y, 0) : x \in 0..MaxCentre, y \in 0..MaxCentre}

CheckRequests ==
    {LayerRequest(4, 4, b[1], b[2], 2, <<ox, None>>, <<0, None>>, "SW", "both", 0, f) :
        b \in {<<4, 2>>, <<2, 2>>}, ox \in {0, 1}, f \in ReferenceFrame}

\* a plan of the given orientation whose placements sit at the given usable
\* centres, stored in the request's reference frame
MovedPlan(req, orientation, centres) ==
    LayerPlan([i \in DOMAIN centres |->
                  [position |-> transform(req.reference_frame, centres[i],
                                          req.pallet, overhang_x(req),
                                          overhang_y(req)),
                   rotation |-> orientation,
                   block |-> "center",
                   sequence_index |-> i - 1]],
              orientation, Ratio(0, 1), EmptyDict, req.start_corner,
              EmptyDict, req.box)

InitCheck ==
    /\ request \in CheckRequests
    /\ \E o \in {0, 90} : \E a \in Centres : \E b \in Centres :
           \/ plan = MovedPlan(request, o, <<a, b>>)
           \/ plan = MovedPlan(request, o, <<a, b, Vector3(1, 1, 0)>>)
    /\ pc = "planned"
    /\ issues = <<>>
    /\ point = Origin3
    /\ probe = Origin3
    /\ ops = <<>>
    /\ tokens = IdleTokens
    /\ constructed = None
    /\ ExportIdle
    /\ HeapIdle
    /\ CellIdle
    /\ args = IdleArgs
    /\ level = 0
    /\ current_z = 0
    /\ layers = <<>>
    /\ interleaves = <<>>
    /\ sequence = NoPlan

NextCheck == Validate

SpecCheck == InitCheck /\ [][NextCheck]_vars

\* whether the validator reported placements i < j (1-based) as colliding
Flagged(i, j) ==
    \E k \in DOMAIN issues :
        issues[k] = [kind |-> "collision",
                     first |-> plan.placements[i].sequence_index,
                     second |-> plan.placements[j].sequence_index]

\* distance of the stored centres of placements i and j along each axis
ApartX(i, j) ==
    LET d == plan.placements[i].position.x - plan.placements[j].position.x
    IN  IF d >= 0 THEN d ELSE 0 - d

ApartY(i, j) ==
    LET d == plan.placements[i].position.y - plan.placements[j].position.y
    IN  IF d >= 0 THEN d ELSE 0 - d

\* the footprint along X and Y of a box turned as the plan says
FootprintX == IF plan.orientation = 0 THEN request.box.width ELSE request.box.depth

FootprintY == IF plan.orientation = 0 THEN request.box.depth ELSE request.box.width

\* C12 as stated: two placements whose centres are less than one box width
\* apart on both axes are always reported as a collision.
WithinBoxWidthAlwaysFlagged ==
    pc = "validated" =>
        \A i, j \in DOMAIN plan.placements :
            (i < j /\ ApartX(i, j) < request.box.width
                   /\ ApartY(i, j) < request.box.width)
                => Flagged(i, j)

\* C12 amended: two placements whose centres are less than the footprint
\* width minus the clearance apart on X and less than the footprint depth
\* minus the clearance apart on Y are always reported as a collision, in
\* every reference frame and for either orientation of the plan.
WithinFootprintAlwaysFlagged ==
    pc = "validated" =>
        \A i, j \in DOMAIN plan.placements :
            (i < j /\ ApartX(i, j) < FootprintX - Clearance
                   /\ ApartY(i, j) < FootprintY - Clearance)
                => Flagged(i, j)

WithinFootprintAlwaysFlaggedWitness ==
    /\ pc = "validated"
    /\ request.reference_frame = [origin |-> "NE", x_axis |-> "W", y_axis |-> "S"]
    /\ request.box.width = 4 /\ request.box.depth = 2
    /\ plan.orientation = 90
    /\ ApartX(1, 2) = 0 /\ ApartY(1, 2) = 2
    /\ Flagged(1, 2)

\* the descriptions validate can return about a plan
Descriptions ==
    LET idx == {plan.placements[i].sequence_index : i \in DOMAIN plan.placements}
    IN  [kind : {"width", "depth"}, box : idx]
            \cup [kind : {"collision"}, first : idx, second : idx]

\* C13: a call of validate leaves the plan (placements, collisions list,
\* metadata) and the request as they were, always completes, and hands the
\* defects it finds back only as a list of descriptions.
ValidateOnlyReports ==
    [][pc = "planned" =>
          /\ pc' = "validated"
          /\ plan' = plan
          /\ request' = request
          /\ \A k \in DOMAIN issues' : issues'[k] \in Descriptions]_vars

ValidateOnlyReportsWitness ==
    /\ pc = "validated"
    /\ \E k \in DOMAIN issues : issues[k].kind = "collision"
    /\ \E k \in DOMAIN issues : issues[k].kind = "width"
    /\ plan.collisions = <<>>
    /\ plan.metadata = EmptyDict
    /\ plan = MovedPlan(request, plan.orientation,
                        <<Vector3(0, 0, 0), Vector3(0, 0, 0)>>)

\* the number of boxes that fit the usable area of the request when the box
\* is turned by the given angle: whole columns times whole rows
Packed(angle) ==
    LET uw == request.pallet.width + 2 * overhang_x(request)
        ud == request.pallet.depth + 2 * overhang_y(request)
        fw == IF angle = 0 THEN request.box.width ELSE request.box.depth
        fd == IF angle = 0 THEN request.box.depth ELSE request.box.width
    IN  (uw \div fw) * (ud \div fd)

\* C14: in "both" mode, whenever the box turned by 90 packs strictly more
\* boxes than the box unturned, the plan returned is the one turned by 90.
MorePackedAt90Wins ==
    (Returned /\ request.orientation_mode = "both" /\ Packed(90) > Packed(0))
        => plan.orientation = 90

MorePackedAt90WinsWitness ==
    /\ pc = "planned"
    /\ request.orientation_mode = "both"
    /\ Packed(0) >= 1
    /\ Packed(90) > Packed(0)
    /\ plan.orientation = 90
    /\ Len(plan.placements) = Packed(90)

\* a lower-case letter paired with its upper-case form, for the letters of
\* the tokens
LetterCases ==
    {<<"s", "S">>, <<"w", "W">>, <<"e", "E">>, <<"n", "N">>, <<"c", "C">>,
     <<"t", "T">>, <<"r", "R">>}

\* str spells the word when case is ignored
SpellsIgnoringCase(str, word) ==
    /\ Len(str) = Len(word)
    /\ \A i \in DOMAIN str : str[i] = word[i] \/ <<str[i], word[i]>> \in LetterCases

\* the tokens a str is accepted as, out of the given names
AcceptedAs(str, names) ==
    {t \in names : \/ SpellsIgnoringCase(str, Spelling[t])
                   \/ (t = "CENTER" /\ SpellsIgnoringCase(str, <<"C">>))}

\* C15: construction fails exactly when the origin, compared ignoring case
\* and with "C" standing for CENTER, is none of SW, SE, NW, NE, CENTER, or
\* the x axis is neither E nor W, or the y axis is neither N nor S (axes
\* compared ignoring case as well); a successful construction stores the
\* upper-case tokens with "C" stored as "CENTER"; each of the 5 x 2 x 2
\* canonical combinations is accepted and stored as given.
ConstructionChecksTokens ==
    LET o == AcceptedAs(tokens.origin, Origins)
        x == AcceptedAs(tokens.x_axis, {"E", "W"})
        y == AcceptedAs(tokens.y_axis, {"N", "S"})
    IN  /\ pc = "invalid" => (o = {} \/ x = {} \/ y = {})
        /\ pc = "invalid" => constructed = None
        /\ pc = "constructed" =>
              /\ constructed # None
              /\ o = {Value(constructed).origin}
              /\ x = {Value(constructed).x_axis}
              /\ y = {Value(constructed).y_axis}
              /\ Value(constructed) \in ReferenceFrame
        /\ \A f \in ReferenceFrame :
              tokens = [origin |-> Spelling[f.origin], x_axis |-> Spelling[f.x_axis],
                        y_axis |-> Spelling[f.y_axis]]
                  => /\ pc # "invalid"
                     /\ pc = "constructed" => constructed = Some(f)

ConstructionChecksTokensWitness ==
    /\ pc = "constructed"
    /\ tokens = [origin |-> <<"c">>, x_axis |-> <<"w">>, y_axis |-> <<"S">>]
    /\ constructed = Some([origin |-> "CENTER", x_axis |-> "W", y_axis |-> "S"])

\* the start corners a request can name
StartCorners == {"SW", "SE", "NW", "NE"}

\* C16: the plan of a request and the plan of the same request with another
\* start corner have the same placements, orientation, fill ratio and block
\* histogram; they differ in the start_corner field only.
StartCornerOnlyLabelsPlan ==
    Returned =>
        \A c \in StartCorners :
            LET other == plan_layer([request EXCEPT !.start_corner = c])
            IN  /\ other # NoPlan
                /\ other.placements = plan.placements
                /\ other.orientation = plan.orientation
                /\ other.fill_ratio = plan.fill_ratio
                /\ other.blocks = plan.blocks
                /\ other.start_corner = c
                /\ plan.start_corner = request.start_corner
                /\ other = [plan EXCEPT !.start_corner = c]

StartCornerOnlyLabelsPlanWitness ==
    /\ pc = "planned"
    /\ request.start_corner = "NE"
    /\ request.reference_frame = [origin |-> "SE", x_axis |-> "W", y_axis |-> "N"]
    /\ Len(plan.placements) >= 4
    /\ plan.metadata["columns"] >= 2
    /\ plan_layer([request EXCEPT !.start_corner = "SW"]).placements = plan.placements
    /\ plan_layer([request EXCEPT !.start_corner = "SW"]) # plan

\* the plan of the request at hand computed under the default SW/E/N frame
DefaultFramePlan == plan_layer([request EXCEPT !.reference_frame = DefaultFrame])

\* position p of a plan made for frame f, mapped back by f's own restore
MappedBack(f, p) ==
    restore(f, p, request.pallet, overhang_x(request), overhang_y(request))

\* C17: the plan computed under the request's frame and the plan computed
\* under the default SW/E/N frame have the same number of placements and,
\* index by index, the same position once each is mapped back with its own
\* frame's restore.
FramesAgreeAfterRestore ==
    Returned =>
        /\ DefaultFramePlan # NoPlan
        /\ Len(DefaultFramePlan.placements) = Len(plan.placements)
        /\ \A i \in DOMAIN plan.placements :
               MappedBack(request.reference_frame, plan.placements[i].position)
                   = MappedBack(DefaultFrame, DefaultFramePlan.placements[i].position)

FramesAgreeAfterRestoreWitness ==
    /\ pc = "planned"
    /\ request.reference_frame = [origin |-> "NE", x_axis |-> "W", y_axis |-> "S"]
    /\ overhang_x(request) > 0
    /\ Len(plan.placements) >= 2
    /\ plan.placements[1].position.x # DefaultFramePlan.placements[1].position.x
    /\ plan.placements[1].position.y # DefaultFramePlan.placements[1].position.y
    /\ MappedBack(request.reference_frame, plan.placements[1].position)
           = MappedBack(DefaultFrame, DefaultFramePlan.placements[1].position)
    /\ MappedBack(request.reference_frame, plan.placements[1].position)
           # plan.placements[1].position

RECURSIVE SumOver(_, _)

\* the sum of the counts a histogram holds under the given block names
SumOver(histogram, names) ==
    IF names = {} THEN 0
    ELSE LET b == CHOOSE n \in names : TRUE
         IN  histogram[b] + SumOver(histogram, names \ {b})

\* C18: a returned plan has exactly columns x rows placements, columns and
\* rows being the whole number of footprints of the chosen orientation that
\* fit the pallet side enlarged by twice the overhang, and the counts of its
\* block histogram add up to the number of placements.
GridIsComplete ==
    Returned =>
        LET usable_width == request.pallet.width + 2 * overhang_x(request)
            usable_depth == request.pallet.depth + 2 * overhang_y(request)
            turned == plan.orientation # 0
            columns == usable_width
                           \div (IF turned THEN request.box.depth ELSE request.box.width)
            rows == usable_depth
                        \div (IF turned THEN request.box.width ELSE request.box.depth)
        IN  /\ Len(plan.placements) = columns * rows
            /\ SumOver(plan.blocks, DOMAIN plan.blocks) = Len(plan.placements)
            /\ \A b \in DOMAIN plan.blocks : plan.blocks[b] >= 1

GridIsCompleteWitness ==
    /\ pc = "planned"
    /\ overhang_x(request) > 0
    /\ request.pallet.width \div request.box.width
           < (request.pallet.width + 2 * overhang_x(request)) \div request.box.width
    /\ plan.orientation = 0
    /\ Len(plan.placements) = 12
    /\ DOMAIN plan.blocks = {"south", "north", "west", "east", "center"}

\* the fill ratio of a layer plan lies in [0, 1] and is the area of its
\* columns x rows footprints over the usable area of the request
FillRatioAsDefined(pl) ==
    LET usable_width == request.pallet.width + 2 * overhang_x(request)
        usable_depth == request.pallet.depth + 2 * overhang_y(request)
        fw == IF pl.orientation = 0 THEN request.box.width ELSE request.box.depth
        fd == IF pl.orientation = 0 THEN request.box.depth ELSE request.box.width
        boxes == (usable_width \div fw) * (usable_depth \div fd)
    IN  /\ pl.fill_ratio.den > 0
        /\ 0 <= pl.fill_ratio.num
        /\ pl.fill_ratio.num <= pl.fill_ratio.den
        /\ pl.fill_ratio.num * (usable_width * usable_depth)
               = (boxes * fw * fd) * pl.fill_ratio.den

\* C19: the plan plan_layer returns, and every level stack_layers builds,
\* has a fill ratio between 0 and 1 equal to columns x rows x footprint
\* width x footprint depth over usable width x usable depth.
FillRatioWithinUnit ==
    /\ Returned => FillRatioAsDefined(plan)
    /\ \A i \in DOMAIN layers : FillRatioAsDefined(layers[i])
    /\ sequence # NoPlan =>
           \A i \in DOMAIN sequence.layers : FillRatioAsDefined(sequence.layers[i])

FillRatioWithinUnitWitness ==
    /\ pc = "returned"
    /\ Len(sequence.layers) >= 2
    /\ overhang_x(request) > 0
    /\ sequence.layers[2].orientation = 0
    /\ request.box.width # request.box.depth
    /\ sequence.layers[2].fill_ratio.num = sequence.layers[2].fill_ratio.den
    /\ sequence.layers[2].fill_ratio.num
           > request.pallet.width * request.pallet.depth

\* C20: every level of a returned sequence is the single-layer plan of the
\* request lifted in Z only (same number of placements, orientation, fill
\* ratio, block histogram and, index by index, the same X, Y, rotation,
\* block and sequence_index), so the sequence holds levels times the boxes
\* of one layer.
LevelsAreLiftedSinglePlan ==
    pc = "returned" =>
        LET single == plan_layer(request)
        IN  /\ single # NoPlan
            /\ \A i \in DOMAIN sequence.layers :
                   LET layer == sequence.layers[i]
                   IN  /\ Len(layer.placements) = Len(single.placements)
                       /\ layer.orientation = single.orientation
                       /\ layer.fill_ratio = single.fill_ratio
                       /\ layer.blocks = single.blocks
                       /\ \A k \in DOMAIN layer.placements :
                              /\ layer.placements[k].position.x
                                     = single.placements[k].position.x
                              /\ layer.placements[k].position.y
                                     = single.placements[k].position.y
                              /\ layer.placements[k].position.z
                                     >= single.placements[k].position.z
                              /\ layer.placements[k].position.z
                                         - single.placements[k].position.z
                                     = layer.placements[1].position.z
                                         - single.placements[1].position.z
                              /\ layer.placements[k].rotation
                                     = single.placements[k].rotation
                              /\ layer.placements[k].block
                                     = single.placements[k].block
                              /\ layer.placements[k].sequence_index
                                     = single.placements[k].sequence_index
            /\ total_boxes(sequence) = Levels * Len(single.placements)

LevelsAreLiftedSinglePlanWitness ==
    /\ pc = "returned"
    /\ Levels = MaxLevels
    /\ Len(AskedCorners) >= 2
    /\ sequence.layers[2].start_corner # request.start_corner
    /\ Len(plan_layer(request).placements) >= 2
    /\ total_boxes(sequence) = MaxLevels * Len(plan_layer(request).placements)
    /\ sequence.layers[3].placements[1].position.z
           > plan_layer(request).placements[1].position.z

\* C21: each glyph centre of the view model of a planned layer lies within
\* the pallet widened by the overhang on each side:
\* -overhang_x <= x <= pallet width + overhang_x, and likewise on Y.
GlyphCentresWithinOverhang ==
    pc = "drawn" =>
        \A i \in DOMAIN Value(view_model).placements :
            LET center == Value(view_model).placements[i].center
            IN  /\ 0 - overhang_x(request) <= center.x
                /\ center.x <= request.pallet.width + overhang_x(request)
                /\ 0 - overhang_y(request) <= center.y
                /\ center.y <= request.pallet.depth + overhang_y(request)

\* C23: the X and Y of each row of the PLC export are the restored position
\* of the placement it was written for.
ExportWritesRestored ==
    pc = "exported" =>
        /\ Len(plc_rows) = Len(plan.placements)
        /\ \A i \in DOMAIN plc_rows :
               LET physical == restore(request.reference_frame,
                                       plan.placements[i].position, request.pallet,
                                       overhang_x(request), overhang_y(request))
               IN  /\ plc_rows[i].x = physical.x
                   /\ plc_rows[i].y = physical.y

\* the request has a pallet or box width or depth that is not positive
NonPositiveDimension ==
    \/ request.pallet.width <= 0 \/ request.pallet.depth <= 0
    \/ request.box.width <= 0 \/ request.box.depth <= 0

\* C22: planning with a non-positive pallet or box width or depth ends in a
\* configuration error raised by the planner, and never returns a plan.
NonPositiveDimensionRejected ==
    (NonPositiveDimension /\ pc # "start") =>
        (pc = "configuration_error" /\ plan = NoPlan)

\* the validator reported placement i (1-based) as exceeding the pallet
\* limits of the given kind, "width" or "depth"
Exceeds(kind, i) ==
    \E k \in DOMAIN issues :
        issues[k] = [kind |-> kind, box |-> plan.placements[i].sequence_index]

TimesFlagged(i, j) ==
    Cardinality({k \in DOMAIN issues :
        issues[k] = [kind |-> "collision",
                     first |-> plan.placements[i].sequence_index,
                     second |-> plan.placements[j].sequence_index]})

\* C25: a pair of placements is reported as a collision exactly when, on
\* restored coordinates, |dx| < width - clearance and |dy| < depth -
\* clearance; it is reported once, lower index first, and never when the
\* pair is a footprint or more apart on an axis.
OverlapFlaggedIffCloseOnBothAxes ==
    pc = "validated" =>
        \A i, j \in DOMAIN plan.placements :
            i < j =>
                LET a == MappedBack(request.reference_frame, plan.placements[i].position)
                    b == MappedBack(request.reference_frame, plan.placements[j].position)
                    dx == IF a.x >= b.x THEN a.x - b.x ELSE b.x - a.x
                    dy == IF a.y >= b.y THEN a.y - b.y ELSE b.y - a.y
                    close == dx < FootprintX - Clearance /\ dy < FootprintY - Clearance
                IN  /\ TimesFlagged(i, j) = (IF close THEN 1 ELSE 0)
                    /\ TimesFlagged(j, i) = 0
                    /\ (dx >= FootprintX \/ dy >= FootprintY) => TimesFlagged(i, j) = 0

OverlapFlaggedIffCloseOnBothAxesWitness ==
    /\ pc = "validated"
    /\ request.reference_frame = [origin |-> "SE", x_axis |-> "W", y_axis |-> "N"]
    /\ request.box.width = 4 /\ request.box.depth = 2
    /\ plan.orientation = 0
    /\ MappedBack(request.reference_frame, plan.placements[1].position) = Vector3(3, 1, 0)
    /\ MappedBack(request.reference_frame, plan.placements[2].position) = Vector3(1, 1, 0)
    /\ TimesFlagged(1, 2) = 1

\* C26: a cell is "center" exactly when it touches no edge of the grid; it
\* is "west" or "east" only on the left resp. right edge and off the bottom
\* and top rows; any other cell is "south" on the bottom row and "north"
\* otherwise.  So no corner is "west" or "east" and a one-row grid is all
\* "south".
BlockNamedByEdges ==
    pc = "named" =>
        LET name == Value(block)
            left == cell.col = 0
            right == cell.col = cell.columns - 1
            bottom == cell.row = 0
            top == cell.row = cell.rows - 1
        IN  /\ name \in {"center", "west", "east", "south", "north"}
            /\ name = "center" <=> ~(left \/ right \/ bottom \/ top)
            /\ name = "west" => (left /\ ~bottom /\ ~top)
            /\ name = "east" => (right /\ ~bottom /\ ~top)
            /\ ((left \/ right) /\ ~bottom /\ ~top) => name \in {"west", "east"}
            /\ bottom => name = "south"
            /\ (top /\ ~bottom) => name = "north"
            /\ ((left \/ right) /\ (bottom \/ top)) => name \notin {"west", "east"}
            /\ cell.rows = 1 => name = "south"

BlockNamedByEdgesWitness ==
    /\ pc = "named"
    /\ cell = [row |-> 0, col |-> 2, rows |-> 1, columns |-> 3]
    /\ block = Some("south")

\* the least and the greatest of a non-empty set of integers
Least(S) == CHOOSE m \in S : \A v \in S : m <= v

Greatest(S) == CHOOSE m \in S : \A v \in S : v <= m

\* C27: the placements of a plan carry the sequence indices 0 .. n-1 in
\* order; the one with index row x columns + col is centred, in the usable
\* rectangle, at (offset_x + col x w + w/2, offset_y + row x d + d/2) with
\* offset = (usable - count x box side) / 2, so the free margin west of the
\* grid equals the one east of it and the south margin equals the north one.
GridIsCentredRowMajor ==
    Returned =>
        LET w == IF plan.orientation = 0 THEN request.box.width ELSE request.box.depth
            d == IF plan.orientation = 0 THEN request.box.depth ELSE request.box.width
            usable_w == request.pallet.width + 2 * overhang_x(request)
            usable_d == request.pallet.depth + 2 * overhang_y(request)
            columns == usable_w \div w
            rows == usable_d \div d
            At(k) == MappedBack(request.reference_frame, plan.placements[k].position)
            Xs == {At(k).x : k \in DOMAIN plan.placements}
            Ys == {At(k).y : k \in DOMAIN plan.placements}
        IN  /\ \A k \in DOMAIN plan.placements :
                   LET i == k - 1
                       row == i \div columns
                       col == i % columns
                   IN  /\ plan.placements[k].sequence_index = i
                       /\ row < rows
                       /\ 2 * At(k).x = (usable_w - columns * w) + 2 * col * w + w
                       /\ 2 * At(k).y = (usable_d - rows * d) + 2 * row * d + d
                       /\ At(k).z = request.pickup_offset.z
                       /\ At(k) = _plan_orientation(request, plan.orientation)
                                      .placements[k].position
            /\ 2 * Least(Xs) - w = 2 * (usable_w - Greatest(Xs)) - w
            /\ 2 * Least(Ys) - d = 2 * (usable_d - Greatest(Ys)) - d
            /\ 2 * Least(Xs) - w >= 0
            /\ 2 * Least(Ys) - d >= 0

GridIsCentredRowMajorWitness ==
    /\ pc = "planned"
    /\ request.reference_frame = [origin |-> "NW", x_axis |-> "W", y_axis |-> "S"]
    /\ plan.metadata["columns"] = 2
    /\ plan.metadata["rows"] = 2
    /\ request.box.width = 4 /\ request.box.depth = 2
    /\ plan.orientation = 0
    /\ request.pallet.width + 2 * overhang_x(request) = 10
    /\ MappedBack(request.reference_frame, plan.placements[4].position).x = 7

\* C28: transform maps p to ((p.x - overhang_x - o.x) * sx,
\* (p.y - overhang_y - o.y) * sy, p.z), o being the origin point of the
\* pallet (SW (0,0), SE (w,0), NW (0,d), NE (w,d), CENTER (w/2,d/2)), sx +1
\* for E and -1 for W, sy +1 for N and -1 for S; transform and restore both
\* leave Z as it was.
TransformShiftsThenFlips ==
    LET frame == request.reference_frame
        w == request.pallet.width
        d == request.pallet.depth
        twice_ox == IF frame.origin \in {"SE", "NE"} THEN 2 * w
                    ELSE IF frame.origin = "CENTER" THEN w ELSE 0
        twice_oy == IF frame.origin \in {"NW", "NE"} THEN 2 * d
                    ELSE IF frame.origin = "CENTER" THEN d ELSE 0
        sx == IF frame.x_axis = "E" THEN 1 ELSE 0 - 1
        sy == IF frame.y_axis = "N" THEN 1 ELSE 0 - 1
    IN  /\ ops = <<"transform">> =>
              /\ 2 * point.x = (2 * probe.x - 2 * overhang_x(request) - twice_ox) * sx
              /\ 2 * point.y = (2 * probe.y - 2 * overhang_y(request) - twice_oy) * sy
              /\ point.z = probe.z
        /\ point.z = probe.z

TransformShiftsThenFlipsWitness ==
    /\ ops = <<"transform">>
    /\ request.reference_frame = [origin |-> "NW", x_axis |-> "W", y_axis |-> "N"]
    /\ overhang_x(request) = 1 /\ overhang_y(request) = 2
    /\ request.pallet.width = 6
    /\ probe = Vector3(2, 1, 1)
    /\ point = Vector3(0 - 1, 0 - 5, 1)

\* the box turned by angle fits the usable rectangle of the request at least once
FitsAt(angle) ==
    LET w == IF angle = 0 THEN request.box.width ELSE request.box.depth
        d == IF angle = 0 THEN request.box.depth ELSE request.box.width
    IN  /\ w <= request.pallet.width + 2 * overhang_x(request)
        /\ d <= request.pallet.depth + 2 * overhang_y(request)

\* the orientations the mode of the request allows
AllowedByMode ==
    IF request.orientation_mode = "width" THEN {0}
    ELSE IF request.orientation_mode = "depth" THEN {90}
    ELSE {0, 90}

\* C30: the orientation of a returned plan is one the orientation mode
\* allows (WIDTH 0, DEPTH 90, BOTH either); when no allowed orientation
\* fits, even if the other one would, plan_layer fails as infeasible.
OrientationModeIsRespected ==
    /\ pc \in {"planned", "validated"} =>
          /\ plan.orientation \in AllowedByMode
          /\ \A i \in DOMAIN plan.placements :
                 plan.placements[i].rotation \in AllowedByMode
    /\ (pc # "start" /\ \A angle \in AllowedByMode : ~FitsAt(angle)) =>
          (pc = "infeasible" /\ plan = NoPlan)

OrientationModeIsRespectedWitness ==
    /\ request.orientation_mode = "depth"
    /\ FitsAt(0)
    /\ ~FitsAt(90)
    /\ pc = "infeasible"

\* the addresses layer i holds its four containers at
ContainersOf(i) ==
    {refs[i].blocks, refs[i].metadata, refs[i].collisions,
     refs[i].approach_overrides}

\* Z offset the level with 1-based number i was planned at, no sheet between
OffsetOfLevel(i) ==
    (i - 1) * (IF args.z_step = None THEN request.box.height
               ELSE Value(args.z_step))

\* C29: no two levels of a stack_layers sequence hold the same blocks,
\* metadata, approach_overrides or collisions object, and none holds the
\* caller's overrides dict; once apply_approach has been called on a layer
\* with its own direction, that layer's metadata holds that direction and
\* its own level and z_offset, whatever was applied to later layers, and
\* the layer's overrides stay what the caller passed even after the caller
\* changes its dict.
LevelsShareNoContainer ==
    /\ \A i \in DOMAIN refs :
           /\ Cardinality(ContainersOf(i)) = 4
           /\ Overrides \notin ContainersOf(i)
           /\ \A j \in DOMAIN refs :
                  i # j => ContainersOf(i) \cap ContainersOf(j) = {}
    /\ \A i \in DOMAIN refs :
           /\ heap[refs[i].metadata]["level"] = i
           /\ heap[refs[i].metadata]["z_offset"] = OffsetOfLevel(i)
    /\ \A i \in DOMAIN given.directions :
           /\ heap[refs[i].metadata]["approach_direction"] = given.directions[i]
           /\ heap[refs[i].approach_overrides] = given.overrides
    /\ \A i \in DOMAIN refs :
           i \notin DOMAIN given.directions =>
               /\ "approach_direction" \notin DOMAIN heap[refs[i].metadata]
               /\ heap[refs[i].approach_overrides] =
                      (IF approach_overrides # None THEN given.overrides
                       ELSE EmptyDict)

LevelsShareNoContainerWitness ==
    /\ pc = "mutated"
    /\ Len(refs) = 3
    /\ given.directions = <<"N", "SE", "W">>
    /\ approach_overrides = Some(Overrides)
    /\ DOMAIN given.overrides = {"center"}
    /\ heap[Overrides] # given.overrides
    /\ args.collision_checker
    /\ heap[refs[1].approach_overrides] = given.overrides

====
